---- MODULE Spec2Model ----
(***************************************************************************)
(* Model of the Voting contract (contracts/Voting.sol, kept in the source  *)
(* tree as src/unnamed/part_000).                                          *)
(*                                                                         *)
(* The contract state is owner, proposals and hasVoted.  Every external    *)
(* call is one transaction: it either runs to completion or reverts, and a *)
(* revert discards every write and every event of the call.                *)
(*                                                                         *)
(* lastCall records the call made by the latest step and what its caller   *)
(* got back: the revert reason or the return values, and the events the    *)
(* call emitted, in order (the logs of its receipt).  events is the        *)
(* chain's log of all ProposalAdded / Voted events emitted so far and txs  *)
(* its record of the transactions that were accepted (mined without        *)
(* reverting), the deployment included; both are kept as bags: how the     *)
(* entries of different transactions are ordered is not represented.       *)
(*                                                                         *)
(* calls holds the transactions that several callers have sent at the same *)
(* time: each is pending until the chain executes it, in an order the      *)
(* callers do not control, and then done with its outcome.                 *)
(*                                                                         *)
(* client is the React component of the front end (App.jsx): its state     *)
(* hooks and the position its asynchronous functions have reached.         *)
(***************************************************************************)
EXTENDS Integers, Sequences, FiniteSets, Bags

VARIABLES owner, proposals, hasVoted, events, lastCall, txs, calls, client

vars == <<owner, proposals, hasVoted, events, lastCall, txs, calls, client>>

(***************************************************************************)
(* Bounds of the model.                                                    *)
(***************************************************************************)
\* number of distinct externally owned accounts that send transactions
NumAddresses == 2
\* addProposal is not attempted once the array holds this many proposals
MaxProposals == 4

Addresses == 1..NumAddresses

\* the account that deploys the contract; the addresses are interchangeable
Deployer == 1

\* placeholder for "no address" / "no index" in a record field that does
\* not apply to the event or call it describes
NoAddress == 0
NoIndex == 0 - 1

(***************************************************************************)
(* Strings.  A name is a string of one-byte (ASCII) characters, so         *)
(* bytes(_name).length is its Len.                                         *)
(***************************************************************************)
\* s repeated n times, built by halving n
RECURSIVE Repeat(_, _)
Repeat(s, n) ==
    IF n = 0 THEN ""
    ELSE LET half == Repeat(s, n \div 2)
         IN  IF n % 2 = 0 THEN half \o half ELSE half \o half \o s

bytesLength(name) == Len(name)

\* the number of proposals the constructor adds
NumSeeds == 3

\* the three names the constructor passes to _addProposalInternal
SeedA == "Proposal A: Fund Project Alpha"
SeedB == "Proposal B: Support Initiative Beta"
SeedC == "Proposal C: Allocate Resources Gamma"

\* names offered to addProposal: lengths 0, 1, 99, 100 and 120
NameInputs == {"", "G", Repeat("x", 99), Repeat("y", 100), Repeat("z", 120)}

\* the index a caller's -1 stands for: it wraps to type(uint256).max, far
\* beyond any array length.  The largest integer the model checker
\* represents takes its place here.
HugeIndex == 2147483647

\* indices offered to vote: every index that can be valid, the array length
\* itself and (while the array is not full) one past it
VoteIndexInputs == 0..MaxProposals

\* indices offered to getProposal: the same, and the wrapped -1
IndexInputs == VoteIndexInputs \cup {HugeIndex}

(***************************************************************************)
(* Revert reasons (the require messages) and the error kinds they map to.  *)
(***************************************************************************)
NoError == ""
ErrOnlyOwner == "Only owner can call this function."
ErrEmptyName == "Proposal name cannot be empty."
ErrNameTooLong == "Proposal name is too long."
ErrVoteIndex == "Voting: Invalid proposal index."
ErrAlreadyVoted == "Voting: You have already voted."
ErrGetIndex == "GetProposal: Invalid proposal index."
NoProposalsSentinel == "No proposals available"

Unauthorized == {ErrOnlyOwner}
InvalidProposal == {ErrEmptyName, ErrNameTooLong}
InvalidIndex == {ErrVoteIndex, ErrGetIndex}
AlreadyVoted == {ErrAlreadyVoted}

(***************************************************************************)
(* Contract storage as one value, and the outcome of running a function    *)
(* on it.                                                                  *)
(***************************************************************************)
Proposal(name, voteCount) == [name |-> name, voteCount |-> voteCount]

ProposalAdded(proposalIndex, name) ==
    [type |-> "ProposalAdded", voter |-> NoAddress,
     proposalIndex |-> proposalIndex, name |-> name]

Voted(voter, proposalIndex) ==
    [type |-> "Voted", voter |-> voter,
     proposalIndex |-> proposalIndex, name |-> ""]

\* the storage and the event log as a call finds them; logs collects the
\* events of the call itself and atEmit, entry by entry, the proposals and
\* the voted flags as they stood when the event was emitted
Storage == [owner |-> owner, proposals |-> proposals,
            hasVoted |-> hasVoted, events |-> events,
            logs |-> <<>>, atEmit |-> <<>>]

Snapshot(s) == [proposals |-> s.proposals, hasVoted |-> s.hasVoted]

\* emit e
Emit(s, e) ==
    [s EXCEPT !.events = @ (+) SetToBag({e}),
              !.logs = Append(@, e),
              !.atEmit = Append(@, Snapshot(s))]

\* a call that ran to completion: the storage it leaves and what it returns
\* (nret values: retStr the string one, retInt the uint one)
Completed(s, nret, retStr, retInt) ==
    [error |-> NoError, storage |-> s,
     nret |-> nret, retStr |-> retStr, retInt |-> retInt]

\* a call that reverted: the storage is the one before the call (s0)
Reverted(s0, msg) ==
    [error |-> msg, storage |-> s0,
     nret |-> 0, retStr |-> "", retInt |-> 0]

(***************************************************************************)
(* modifier onlyOwner                                                      *)
(***************************************************************************)
\* faulty variant: the sender is not compared with owner
onlyOwner_anyone(s, sender) == TRUE

onlyOwner(s, sender) == sender = s.owner

(***************************************************************************)
(* _addProposalInternal                                                    *)
(***************************************************************************)
NameNotEmpty(name) == bytesLength(name) > 0

\* faulty variant: <= 100 in place of < 100
NameNotTooLong_inclusive(name) == bytesLength(name) <= 100

NameNotTooLong(name) == bytesLength(name) < 100

\* faulty variant: the new proposal takes index 0 and shifts the others
PushProposal_atFront(props, name) == <<Proposal(name, 0)>> \o props

\* faulty variant: the new proposal starts with one vote
PushProposal_oneVote(props, name) == Append(props, Proposal(name, 1))

PushProposal(props, name) == Append(props, Proposal(name, 0))

\* faulty variant: the event carries proposals.length read after the push
EmitProposalAdded_postIndex(s, newProposalIndex, name) ==
    Emit(s, ProposalAdded(Len(s.proposals), name))

EmitProposalAdded(s, newProposalIndex, name) ==
    Emit(s, ProposalAdded(newProposalIndex, name))

addProposalInternal(s, name) ==
    IF ~NameNotEmpty(name) THEN Reverted(s, ErrEmptyName)
    ELSE IF ~NameNotTooLong(name) THEN Reverted(s, ErrNameTooLong)
    ELSE LET newProposalIndex == Len(s.proposals)
             s1 == [s EXCEPT !.proposals = PushProposal(@, name)]
             s2 == EmitProposalAdded(s1, newProposalIndex, name)
         IN  Completed(s2, 0, "", 0)

(***************************************************************************)
(* addProposal: onlyOwner, then the body.  The function declares no return *)
(* value.                                                                  *)
(***************************************************************************)
addProposal(s, sender, name) ==
    IF ~onlyOwner(s, sender) THEN Reverted(s, ErrOnlyOwner)
    ELSE LET r == addProposalInternal(s, name)
         IN  IF r.error # NoError THEN Reverted(s, r.error)
             ELSE Completed(r.storage, 0, "", 0)

(***************************************************************************)
(* constructor                                                             *)
(***************************************************************************)
\* faulty variant: the third initial proposal is left out
constructor_twoSeeds(sender) ==
    LET s0 == [owner |-> sender, proposals |-> <<>>,
               hasVoted |-> [a \in Addresses |-> FALSE],
               events |-> EmptyBag, logs |-> <<>>, atEmit |-> <<>>]
        r1 == addProposalInternal(s0, SeedA)
        r2 == addProposalInternal(r1.storage, SeedB)
    IN  r2.storage

\* faulty variant: no initial proposal is added
constructor_noSeeds(sender) ==
    [owner |-> sender, proposals |-> <<>>,
     hasVoted |-> [a \in Addresses |-> FALSE],
     events |-> EmptyBag, logs |-> <<>>, atEmit |-> <<>>]

\* faulty variant: owner is not assigned and stays the zero address
constructor_noOwner(sender) ==
    LET s0 == [owner |-> NoAddress, proposals |-> <<>>,
               hasVoted |-> [a \in Addresses |-> FALSE],
               events |-> EmptyBag, logs |-> <<>>, atEmit |-> <<>>]
        r1 == addProposalInternal(s0, SeedA)
        r2 == addProposalInternal(r1.storage, SeedB)
        r3 == addProposalInternal(r2.storage, SeedC)
    IN  r3.storage

constructor(sender) ==
    LET s0 == [owner |-> sender, proposals |-> <<>>,
               hasVoted |-> [a \in Addresses |-> FALSE],
               events |-> EmptyBag, logs |-> <<>>, atEmit |-> <<>>]
        r1 == addProposalInternal(s0, SeedA)
        r2 == addProposalInternal(r1.storage, SeedB)
        r3 == addProposalInternal(r2.storage, SeedC)
    IN  r3.storage

(***************************************************************************)
(* vote                                                                    *)
(***************************************************************************)
\* faulty variant: <= in place of <
VoteIndexValid_inclusive(s, proposalIndex) == proposalIndex <= Len(s.proposals)

VoteIndexValid(s, proposalIndex) == proposalIndex < Len(s.proposals)

\* faulty variant: the second require of vote left out
NotYetVoted_off(s, sender) == TRUE

NotYetVoted(s, sender) == ~s.hasVoted[sender]

\* faulty variant: hasVoted[msg.sender] is not set
MarkVoted_skip(hv, sender) == hv

\* faulty variant: the mapping is replaced by one that holds the sender alone
MarkVoted_senderAlone(hv, sender) == [a \in Addresses |-> a = sender]

\* faulty variant: every address is marked
MarkVoted_everyone(hv, sender) == [a \in Addresses |-> TRUE]

MarkVoted(hv, sender) == [hv EXCEPT ![sender] = TRUE]

\* faulty variant: the counter is raised only while it is zero
IncrementVoteCount_once(props, proposalIndex) ==
    [props EXCEPT ![proposalIndex + 1].voteCount = IF @ = 0 THEN 1 ELSE @]

\* faulty variant: the counter is raised by 2
IncrementVoteCount_twice(props, proposalIndex) ==
    [props EXCEPT ![proposalIndex + 1].voteCount = @ + 2]

\* faulty variant: the element is rebuilt and loses its name
IncrementVoteCount_dropsName(props, proposalIndex) ==
    [props EXCEPT ![proposalIndex + 1] = Proposal("", @.voteCount + 1)]

\* proposals[_proposalIndex].voteCount++ ; the array is 0-based in the
\* contract and 1-based here.  The uint256 counter cannot overflow: it is
\* bounded by the number of addresses.
IncrementVoteCount(props, proposalIndex) ==
    [props EXCEPT ![proposalIndex + 1].voteCount = @ + 1]

\* faulty variant: the two requires in the other order
vote_votedFirst(s, sender, proposalIndex) ==
    IF ~NotYetVoted(s, sender) THEN Reverted(s, ErrAlreadyVoted)
    ELSE IF ~VoteIndexValid(s, proposalIndex) THEN Reverted(s, ErrVoteIndex)
    ELSE LET s1 == [s EXCEPT !.hasVoted = MarkVoted(@, sender)]
             s2 == [s1 EXCEPT !.proposals = IncrementVoteCount(@, proposalIndex)]
             s3 == Emit(s2, Voted(sender, proposalIndex))
         IN  Completed(s3, 0, "", 0)

\* faulty variant: Voted is emitted before the two writes
vote_emitFirst(s, sender, proposalIndex) ==
    IF ~VoteIndexValid(s, proposalIndex) THEN Reverted(s, ErrVoteIndex)
    ELSE IF ~NotYetVoted(s, sender) THEN Reverted(s, ErrAlreadyVoted)
    ELSE LET s1 == Emit(s, Voted(sender, proposalIndex))
             s2 == [s1 EXCEPT !.hasVoted = MarkVoted(@, sender)]
             s3 == [s2 EXCEPT !.proposals = IncrementVoteCount(@, proposalIndex)]
         IN  Completed(s3, 0, "", 0)

vote(s, sender, proposalIndex) ==
    IF ~VoteIndexValid(s, proposalIndex) THEN Reverted(s, ErrVoteIndex)
    ELSE IF ~NotYetVoted(s, sender) THEN Reverted(s, ErrAlreadyVoted)
    ELSE LET s1 == [s EXCEPT !.hasVoted = MarkVoted(@, sender)]
             s2 == [s1 EXCEPT !.proposals = IncrementVoteCount(@, proposalIndex)]
             s3 == Emit(s2, Voted(sender, proposalIndex))
         IN  Completed(s3, 0, "", 0)

(***************************************************************************)
(* view functions                                                          *)
(***************************************************************************)
\* faulty variant: the count is read by popping the array down to empty
getProposalsCount_popping(s) ==
    Completed([s EXCEPT !.proposals = <<>>], 1, "", Len(s.proposals))

getProposalsCount(s) == Completed(s, 1, "", Len(s.proposals))

\* the getters the compiler generates for the public variables owner and
\* hasVoted; a bool is returned as the uint 0 or 1 of its ABI encoding
BoolAsUint(b) == IF b THEN 1 ELSE 0

ownerGetter(s) == Completed(s, 1, "", s.owner)

hasVotedGetter(s, a) == Completed(s, 1, "", BoolAsUint(s.hasVoted[a]))

\* faulty variant: no require; an index out of range yields zero values
getProposal_noRequire(s, index) ==
    IF ~(index < Len(s.proposals)) THEN Completed(s, 2, "", 0)
    ELSE LET proposal == s.proposals[index + 1]
         IN  Completed(s, 2, proposal.name, proposal.voteCount)

getProposal(s, index) ==
    IF ~(index < Len(s.proposals)) THEN Reverted(s, ErrGetIndex)
    ELSE LET proposal == s.proposals[index + 1]
         IN  Completed(s, 2, proposal.name, proposal.voteCount)

\* faulty variant: != in place of >, so a lower count takes the lead too
Beats_differs(voteCount, winningVoteCount) == voteCount # winningVoteCount

\* faulty variant: >= in place of >, so a later tie takes the lead
Beats_orTies(voteCount, winningVoteCount) == voteCount >= winningVoteCount

Beats(voteCount, winningVoteCount) == voteCount > winningVoteCount

\* the for loop of getWinner from index i on, carrying the two locals
RECURSIVE WinnerLoop(_, _, _, _)
WinnerLoop(props, i, winningVoteCount, winningProposalIndex) ==
    IF ~(i < Len(props)) THEN winningProposalIndex
    ELSE IF Beats(props[i + 1].voteCount, winningVoteCount)
         THEN WinnerLoop(props, i + 1, props[i + 1].voteCount, i)
         ELSE WinnerLoop(props, i + 1, winningVoteCount, winningProposalIndex)

\* faulty variant: an empty array is refused instead of answered
EmptyLedgerResult_revert(s) == Reverted(s, NoProposalsSentinel)

\* return "No proposals available"
EmptyLedgerResult(s) == Completed(s, 1, NoProposalsSentinel, 0)

\* faulty variant: winningProposalIndex starts at the last index
getWinner_lastDefault(s) ==
    IF Len(s.proposals) = 0 THEN EmptyLedgerResult(s)
    ELSE LET winningProposalIndex ==
                 WinnerLoop(s.proposals, 0, 0, Len(s.proposals) - 1)
         IN  Completed(s, 1, s.proposals[winningProposalIndex + 1].name, 0)

getWinner(s) ==
    IF Len(s.proposals) = 0 THEN EmptyLedgerResult(s)
    ELSE LET winningProposalIndex == WinnerLoop(s.proposals, 0, 0, 0)
         IN  Completed(s, 1, s.proposals[winningProposalIndex + 1].name, 0)

(***************************************************************************)
(* Transactions and calls                                                  *)
(***************************************************************************)
Call(op, sender, index, name, r) ==
    [op |-> op, sender |-> sender, index |-> index, name |-> name,
     error |-> r.error, nret |-> r.nret,
     retStr |-> r.retStr, retInt |-> r.retInt,
     logs |-> r.storage.logs, atEmit |-> r.storage.atEmit]

Tx(op, sender, index, name) ==
    [op |-> op, sender |-> sender, index |-> index, name |-> name]

\* a transaction enters the chain's record only when it did not revert
Record(r, tx) ==
    txs' = IF r.error = NoError THEN txs (+) SetToBag({tx}) ELSE txs

Commit(r) ==
    /\ owner' = r.storage.owner
    /\ proposals' = r.storage.proposals
    /\ hasVoted' = r.storage.hasVoted
    /\ events' = r.storage.events

\* the transactions sent concurrently, each idle (not sent), pending or done
MaxCalls == 2
CallIds == 1..MaxCalls

IdleCall ==
    [status |-> "idle", op |-> "none", sender |-> NoAddress,
     index |-> NoIndex, name |-> "", error |-> NoError]

\* the front end is not open
NoClient == [pc |-> "off"]

Init ==
    LET s == constructor(Deployer)
    IN  /\ owner = s.owner
        /\ proposals = s.proposals
        /\ hasVoted = s.hasVoted
        /\ events = s.events
        /\ lastCall = Call("constructor", Deployer, NoIndex, "",
                           Completed(s, 0, "", 0))
        /\ txs = SetToBag({Tx("constructor", Deployer, NoIndex, "")})
        /\ calls = [k \in CallIds |-> IdleCall]
        /\ client = NoClient

AddProposalTx ==
    /\ Len(proposals) < MaxProposals
    /\ \E sender \in Addresses, name \in NameInputs :
          LET r == addProposal(Storage, sender, name)
          IN  /\ Commit(r)
              /\ lastCall' = Call("addProposal", sender, NoIndex, name, r)
              /\ Record(r, Tx("addProposal", sender, NoIndex, name))
              /\ UNCHANGED <<calls, client>>

VoteTx ==
    \E sender \in Addresses, proposalIndex \in VoteIndexInputs :
        LET r == vote(Storage, sender, proposalIndex)
        IN  /\ Commit(r)
            /\ lastCall' = Call("vote", sender, proposalIndex, "", r)
            /\ Record(r, Tx("vote", sender, proposalIndex, ""))
            /\ UNCHANGED <<calls, client>>

\* view functions do not read msg.sender: the caller is left out of the call
GetProposalsCountCall ==
    LET r == getProposalsCount(Storage)
    IN  /\ Commit(r)
        /\ lastCall' = Call("getProposalsCount", NoAddress, NoIndex, "", r)
        /\ UNCHANGED <<txs, calls, client>>

GetProposalCall ==
    \E index \in IndexInputs :
        LET r == getProposal(Storage, index)
        IN  /\ Commit(r)
            /\ lastCall' = Call("getProposal", NoAddress, index, "", r)
            /\ UNCHANGED <<txs, calls, client>>

GetWinnerCall ==
    LET r == getWinner(Storage)
    IN  /\ Commit(r)
        /\ lastCall' = Call("getWinner", NoAddress, NoIndex, "", r)
        /\ UNCHANGED <<txs, calls, client>>

OwnerCall ==
    LET r == ownerGetter(Storage)
    IN  /\ Commit(r)
        /\ lastCall' = Call("owner", NoAddress, NoIndex, "", r)
        /\ UNCHANGED <<txs, calls, client>>

\* hasVoted(a): the address asked about is recorded as the call's sender field
HasVotedCall ==
    \E a \in Addresses :
        LET r == hasVotedGetter(Storage, a)
        IN  /\ Commit(r)
            /\ lastCall' = Call("hasVoted", a, NoIndex, "", r)
            /\ UNCHANGED <<txs, calls, client>>

Next ==
    \/ AddProposalTx
    \/ VoteTx
    \/ GetProposalsCountCall
    \/ GetProposalCall
    \/ GetWinnerCall
    \/ OwnerCall
    \/ HasVotedCall

Spec == Init /\ [][Next]_vars

(***************************************************************************)
(* getWinner as a function of the proposals array.  The array ranges over  *)
(* every array of up to MaxArrayLen proposals with up to MaxVoteCount      *)
(* votes each, the empty array included; a deployed contract never holds   *)
(* the empty one, because its constructor adds three proposals.            *)
(***************************************************************************)
MaxArrayLen == 3
MaxVoteCount == 2

ArrayNames == {SeedA, "G"}

ProposalValues ==
    {Proposal(name, voteCount) : name \in ArrayNames, voteCount \in 0..MaxVoteCount}

ProposalArrays == UNION {[1..n -> ProposalValues] : n \in 0..MaxArrayLen}

InitGetWinner ==
    /\ proposals \in ProposalArrays
    /\ owner = Deployer
    /\ hasVoted = [a \in Addresses |-> FALSE]
    /\ events = EmptyBag
    /\ txs = EmptyBag
    /\ calls = [k \in CallIds |-> IdleCall]
    /\ client = NoClient
    /\ lastCall = Call("none", NoAddress, NoIndex, "",
                       Completed(Storage, 0, "", 0))

NextGetWinner == GetWinnerCall

SpecGetWinner == InitGetWinner /\ [][NextGetWinner]_vars

(***************************************************************************)
(* Concurrent callers.  Up to MaxCalls transactions are sent to a freshly  *)
(* deployed contract before any of them is executed, so all of them are    *)
(* pending together; the chain then executes the pending transactions one  *)
(* at a time in an order of its choosing.  A transaction runs the whole    *)
(* function, its requires and its writes, against the state the previous   *)
(* transaction left.  The votes aim at the first proposal or at index      *)
(* NumSeeds, which exists only once an addProposal has been executed.      *)
(***************************************************************************)
ConcurrentIndexInputs == {0, NumSeeds}

ConcurrentNameInputs == {"", "G"}

ConcurrentInputs ==
    {Tx("vote", a, i, "") : a \in Addresses, i \in ConcurrentIndexInputs}
    \cup {Tx("addProposal", a, NoIndex, n) :
              a \in Addresses, n \in ConcurrentNameInputs}

PendingCall(tx) ==
    [status |-> "pending", op |-> tx.op, sender |-> tx.sender,
     index |-> tx.index, name |-> tx.name, error |-> NoError]

DoneIds == {k \in CallIds : calls[k].status = "done"}

\* the function a transaction calls, run on storage s
Apply(s, c) ==
    IF c.op = "vote" THEN vote(s, c.sender, c.index)
    ELSE addProposal(s, c.sender, c.name)

SendTx ==
    \E k \in CallIds, tx \in ConcurrentInputs :
        /\ DoneIds = {}
        /\ calls[k].status = "idle"
        /\ calls' = [calls EXCEPT ![k] = PendingCall(tx)]
        /\ UNCHANGED <<owner, proposals, hasVoted, events, lastCall, txs,
                       client>>

MineTx ==
    \E k \in CallIds :
        /\ calls[k].status = "pending"
        /\ LET c == calls[k]
               r == Apply(Storage, c)
           IN  /\ Commit(r)
               /\ lastCall' = Call(c.op, c.sender, c.index, c.name, r)
               /\ Record(r, Tx(c.op, c.sender, c.index, c.name))
               /\ calls' = [calls EXCEPT ![k].status = "done",
                                         ![k].error = r.error]
               /\ UNCHANGED client

NextConcurrent ==
    \/ SendTx
    \/ MineTx

SpecConcurrent == Init /\ [][NextConcurrent]_vars

(***************************************************************************)
(* The front end (App.jsx).  The file holds two versions of the component; *)
(* client.version says which one runs.  Version 1 (lines 1-384) keeps the  *)
(* flag actionLoading for a vote in progress, version 2 (lines 387-695)    *)
(* uses loading for that too.  The wallet is connected (account, signer)   *)
(* and the contract instance exists.                                       *)
(*                                                                         *)
(* JavaScript runs one function at a time up to its next await, so every   *)
(* stretch of code between two awaits is one step; the state hooks written *)
(* in a stretch are what the next render shows.  client.pc is the await    *)
(* the component is stopped at:                                            *)
(*   "idle"         nothing is awaited                                     *)
(*   "count"        loadContractData awaits getProposalsCount()            *)
(*   "getProposal"  loadContractData awaits getProposal(i)                 *)
(*   "hasVoted"     loadContractData awaits hasVoted(account)              *)
(*   "voteSent"     handleVote awaits the vote transaction                 *)
(* count, i and proposalsArray are the locals of loadContractData; inVote  *)
(* says that loadContractData was called by handleVote, which resumes when *)
(* it returns.  reads, mutated, voteOutcome and voteReason are not in the  *)
(* component: they record the reads the running (or last) loadContractData *)
(* has made, whether the ledger changed since it started, and how the vote *)
(* of the last handleVote ended (until loadContractData is next started    *)
(* from outside handleVote).                                               *)
(***************************************************************************)
Versions == {1, 2}

ErrAlreadyVotedUi == "You have already voted."
ErrWalletRejected == "Transaction rejected in wallet."

\* `Voting Error: ${err.reason}`
VotingError(reason) == "Voting Error: " \o reason

\* `Failed to load data: ${err.message}. ...` (version 1) and "Failed to
\* load data. ..." (version 2), cut after the reason
LoadError(reason) == "Failed to load data: " \o reason

\* Number(x) of a BigInt x is x itself below 2^53; count and voteCount are
\* bounded by the numbers of proposals and of addresses
Number(x) == x

\* faulty variant: the entries are numbered from one
DisplayEntry_fromOne(index, name, voteCount) ==
    [index |-> index + 1, name |-> name, voteCount |-> voteCount]

\* the object pushed on proposalsArray
DisplayEntry(index, name, voteCount) ==
    [index |-> index, name |-> name, voteCount |-> voteCount]

Read(op, index, error) == [op |-> op, index |-> index, error |-> error]

InitialClient(version, account) ==
    [version |-> version, pc |-> "idle", account |-> account,
     proposals |-> <<>>, hasVoted |-> FALSE, loading |-> FALSE,
     actionLoading |-> FALSE, error |-> "",
     count |-> 0, i |-> 0, proposalsArray |-> <<>>,
     inVote |-> FALSE, voteIndex |-> NoIndex,
     reads |-> <<>>, mutated |-> FALSE,
     voteOutcome |-> "none", voteReason |-> ""]

\* the flag that marks a vote in progress
InProgress(c) == IF c.version = 1 THEN c.actionLoading ELSE c.loading

\* loadContractData up to its first await: setLoading(true); setError("")
loadContractData(c) ==
    [c EXCEPT !.loading = TRUE, !.error = "", !.pc = "count",
              !.count = 0, !.i = 0, !.proposalsArray = <<>>,
              !.reads = <<>>, !.mutated = FALSE]

\* the finally of handleVote
handleVoteFinally(c) ==
    IF c.version = 1
    THEN [c EXCEPT !.actionLoading = FALSE, !.inVote = FALSE]
    ELSE [c EXCEPT !.loading = FALSE, !.inVote = FALSE]

\* the finally of loadContractData, and the return to handleVote if it was
\* the caller
loadContractDataFinally(c) ==
    LET c1 == [c EXCEPT !.loading = FALSE, !.pc = "idle"]
    IN  IF c.inVote THEN handleVoteFinally(c1) ELSE c1

\* the catch of loadContractData
loadContractDataCatch(c, reason) ==
    loadContractDataFinally(
        [c EXCEPT !.error = LoadError(reason), !.proposals = <<>>,
                  !.hasVoted = FALSE])

\* faulty variant: <= in place of <
LoopContinues_inclusive(i, count) == i <= count

\* i < Number(count)
LoopContinues(i, count) == i < count

\* the test of the for loop: another getProposal, or setProposals and on to
\* hasVoted(account)
LoopTest(c) ==
    IF LoopContinues(c.i, c.count) THEN [c EXCEPT !.pc = "getProposal"]
    ELSE [c EXCEPT !.proposals = c.proposalsArray, !.pc = "hasVoted"]

\* getProposalsCount() has answered r
AfterCount(c, r) ==
    LoopTest([c EXCEPT !.count = Number(r.retInt), !.i = 0,
                       !.proposalsArray = <<>>,
                       !.reads = Append(@, Read("getProposalsCount", NoIndex, r.error))])

\* getProposal(i) has answered r
AfterProposal(c, r) ==
    LET c1 == [c EXCEPT !.reads = Append(@, Read("getProposal", c.i, r.error))]
    IN  IF r.error # NoError THEN loadContractDataCatch(c1, r.error)
        ELSE LoopTest([c1 EXCEPT
                 !.proposalsArray =
                     Append(@, DisplayEntry(c.i, r.retStr, Number(r.retInt))),
                 !.i = @ + 1])

\* hasVoted(account) has answered r
AfterHasVoted(c, r) ==
    loadContractDataFinally(
        [c EXCEPT !.hasVoted = (r.retInt = BoolAsUint(TRUE)),
                  !.reads = Append(@, Read("hasVoted", NoIndex, r.error))])

\* handleVote up to its first await
handleVote(c, proposalIndex) ==
    IF c.hasVoted THEN [c EXCEPT !.error = ErrAlreadyVotedUi]
    ELSE LET c1 == [c EXCEPT !.error = "", !.pc = "voteSent",
                             !.inVote = TRUE, !.voteIndex = proposalIndex,
                             !.voteOutcome = "pending", !.voteReason = ""]
         IN  IF c.version = 1 THEN [c1 EXCEPT !.actionLoading = TRUE]
             ELSE [c1 EXCEPT !.loading = TRUE]

\* the transaction is confirmed: setHasVoted(true); await loadContractData()
AfterVoteConfirmed(c) ==
    loadContractData([c EXCEPT !.hasVoted = TRUE, !.voteOutcome = "accepted"])

\* the catch of handleVote: setError(message); await loadContractData()
handleVoteCatch(c, outcome, reason, message) ==
    loadContractData([c EXCEPT !.error = message, !.voteOutcome = outcome,
                               !.voteReason = reason])

\* the indices of the list on display
Displayed(c) == {c.proposals[k].index : k \in DOMAIN c.proposals}

\* faulty variant: the Vote button is never disabled
VoteDisabled_never(c) == FALSE

\* disabled={actionLoading} (version 1), disabled={loading} (version 2)
VoteDisabled(c) == InProgress(c)

\* the list is rendered (account && !loading && proposals.length > 0) with
\* the entry of index in it
ListShows(c, index) ==
    /\ ~c.loading
    /\ Len(c.proposals) > 0
    /\ index \in Displayed(c)

\* faulty variant: the Vote button is rendered whatever hasVoted is
VoteRendered_always(c, index) == ListShows(c, index)

\* the entry of index has a Vote button: {!hasVoted && (<button ...>)}
VoteRendered(c, index) == ListShows(c, index) /\ ~c.hasVoted

\* a Vote button at index that can be clicked
VoteOffered(c, index) == VoteRendered(c, index) /\ ~VoteDisabled(c)

\* the Refresh button: disabled={loading || actionLoading} (version 1),
\* disabled={loading} (version 2)
RefreshEnabled(c) ==
    IF c.version = 1 THEN ~(c.loading \/ c.actionLoading) ELSE ~c.loading

Ledger == <<owner, proposals, hasVoted, events, txs>>

\* the ledger has been deployed and the front end opened, in one of its
\* versions, by the deployer
InitClient ==
    LET s == constructor(Deployer)
    IN  /\ owner = s.owner
        /\ proposals = s.proposals
        /\ hasVoted = s.hasVoted
        /\ events = s.events
        /\ lastCall = Call("constructor", Deployer, NoIndex, "",
                           Completed(s, 0, "", 0))
        /\ txs = SetToBag({Tx("constructor", Deployer, NoIndex, "")})
        /\ calls = [k \in CallIds |-> IdleCall]
        /\ \E version \in Versions :
              client = InitialClient(version, Deployer)

\* loadContractData is started: the Refresh button, or the effect that runs
\* when the contract instance and the account are ready
RefreshClick ==
    /\ RefreshEnabled(client)
    /\ client' = [loadContractData(client) EXCEPT !.voteOutcome = "none",
                                                 !.voteReason = ""]
    /\ UNCHANGED <<Ledger, lastCall, calls>>

\* a Vote button is clicked
VoteClick ==
    \E index \in Displayed(client) :
        /\ VoteOffered(client, index)
        /\ client' = handleVote(client, index)
        /\ UNCHANGED <<Ledger, lastCall, calls>>

ClientReadCount ==
    /\ client.pc = "count"
    /\ client' = AfterCount(client, getProposalsCount(Storage))
    /\ UNCHANGED <<Ledger, lastCall, calls>>

ClientReadProposal ==
    /\ client.pc = "getProposal"
    /\ client' = AfterProposal(client, getProposal(Storage, client.i))
    /\ UNCHANGED <<Ledger, lastCall, calls>>

ClientReadHasVoted ==
    /\ client.pc = "hasVoted"
    /\ client' = AfterHasVoted(client, hasVotedGetter(Storage, client.account))
    /\ UNCHANGED <<Ledger, lastCall, calls>>

\* the vote transaction of the client is executed; a revert reaches
\* handleVote as an error whose reason is the revert string
ClientVoteMined ==
    /\ client.pc = "voteSent"
    /\ LET r == vote(Storage, client.account, client.voteIndex)
       IN  /\ Commit(r)
           /\ Record(r, Tx("vote", client.account, client.voteIndex, ""))
           /\ client' = IF r.error = NoError THEN AfterVoteConfirmed(client)
                        ELSE handleVoteCatch(client, "rejected", r.error,
                                             VotingError(r.error))
    /\ UNCHANGED <<lastCall, calls>>

\* the user refuses the transaction in the wallet (ACTION_REJECTED)
ClientVoteRefused ==
    /\ client.pc = "voteSent"
    /\ client' = handleVoteCatch(client, "refused", "", ErrWalletRejected)
    /\ UNCHANGED <<Ledger, lastCall, calls>>

\* what the other callers send: votes for the first proposal and
\* addProposal calls, the account of the client included (used from
\* another place)
OtherInputs ==
    {Tx("vote", a, 0, "") : a \in Addresses}
    \cup {Tx("addProposal", a, NoIndex, n) :
              a \in Addresses, n \in ConcurrentNameInputs}

\* a transaction of another caller is executed between two steps of the
\* client
OtherTx ==
    \E tx \in OtherInputs :
        /\ tx.op = "addProposal" => Len(proposals) < MaxProposals
        /\ LET r == Apply(Storage, tx)
           IN  /\ Commit(r)
               /\ Record(r, tx)
               /\ client' = [client EXCEPT
                                !.mutated = @ \/ (r.error = NoError)]
        /\ UNCHANGED <<lastCall, calls>>

NextClient ==
    \/ RefreshClick
    \/ VoteClick
    \/ ClientReadCount
    \/ ClientReadProposal
    \/ ClientReadHasVoted
    \/ ClientVoteMined
    \/ ClientVoteRefused
    \/ OtherTx

SpecClient == InitClient /\ [][NextClient]_vars

(***************************************************************************)
(* Vocabulary of the properties                                            *)
(***************************************************************************)
count == getProposalsCount(Storage).retInt

ValidIndices == 0..(count - 1)

\* the accepted transactions of one kind (a bag), and how many they are
Accepted(op) == [t \in {u \in BagToSet(txs) : u.op = op} |-> txs[t]]

NumAccepted(op) == BagCardinality(Accepted(op))

AcceptedVotesBy(a) ==
    [t \in {u \in BagToSet(Accepted("vote")) : u.sender = a} |-> txs[t]]

AcceptedVotesFor(i) ==
    [t \in {u \in BagToSet(Accepted("vote")) : u.index = i} |-> txs[t]]

VotersFor(i) == {t.sender : t \in BagToSet(AcceptedVotesFor(i))}

\* the ledger state a caller can observe, the event log and the chain's
\* record of accepted transactions: what a rejected call must leave alone
LedgerUnchanged == UNCHANGED <<owner, proposals, hasVoted, events, txs>>

IsCall(c, op) == c.op = op

AcceptedCall(c, op) == c.op = op /\ c.error = NoError

(***************************************************************************)
(* C1: for every address a, at most one vote call by a has been accepted,  *)
(* and hasVoted(a) is true exactly when one vote call by a has been        *)
(* accepted.                                                               *)
(***************************************************************************)
C1_OneVotePerIdentity ==
    \A a \in Addresses :
        /\ BagCardinality(AcceptedVotesBy(a)) <= 1
        /\ hasVoted[a] <=> (BagCardinality(AcceptedVotesBy(a)) = 1)

\* an address that has voted tried again and was turned away
C1_Witness ==
    /\ IsCall(lastCall, "vote")
    /\ lastCall.error = ErrAlreadyVoted
    /\ hasVoted[lastCall.sender]
    /\ BagCardinality(AcceptedVotesBy(lastCall.sender)) = 1

(***************************************************************************)
(* C2: for every valid index i, the voteCount getProposal(i) returns is    *)
(* the number of accepted vote(i) calls, which is the number of distinct   *)
(* addresses whose vote for i was accepted.                                *)
(***************************************************************************)
C2_VoteCountAccuracy ==
    \A i \in ValidIndices :
        /\ getProposal(Storage, i).error = NoError
        /\ getProposal(Storage, i).retInt = BagCardinality(AcceptedVotesFor(i))
        /\ BagCardinality(AcceptedVotesFor(i)) = Cardinality(VotersFor(i))

\* one proposal holds two votes and another holds none
C2_Witness ==
    \E i, j \in ValidIndices :
        /\ i # j
        /\ getProposal(Storage, i).retInt = 2
        /\ getProposal(Storage, j).retInt = 0

(***************************************************************************)
(* C3: a vote call for a valid index by a caller who has already voted     *)
(* fails with AlreadyVoted and changes nothing (vote counts, voted set,    *)
(* count, owner), whether the index is the one voted for before or not.    *)
(***************************************************************************)
C3_SecondVoteStep ==
    (/\ IsCall(lastCall', "vote")
     /\ lastCall'.index < count
     /\ hasVoted[lastCall'.sender])
    => (/\ lastCall'.error \in AlreadyVoted
        /\ LedgerUnchanged)

C3_SecondVoteRejected == [][C3_SecondVoteStep]_vars

\* the rejected second vote names another proposal than the first (Scenario B)
C3_Witness ==
    /\ IsCall(lastCall, "vote")
    /\ lastCall.error \in AlreadyVoted
    /\ lastCall.index < count
    /\ \E t \in BagToSet(AcceptedVotesBy(lastCall.sender)) :
          t.index # lastCall.index

(***************************************************************************)
(* C4: a vote call with index >= count fails with InvalidIndex, changes    *)
(* nothing, and does not use up the caller's vote: a caller who had not    *)
(* voted can afterwards still vote for any valid index.                    *)
(***************************************************************************)
C4_BadIndexStep ==
    (/\ IsCall(lastCall', "vote")
     /\ lastCall'.index >= count)
    => (/\ lastCall'.error \in InvalidIndex
        /\ LedgerUnchanged
        /\ ~hasVoted[lastCall'.sender] =>
              \A i \in 0..(Len(proposals') - 1) :
                  vote(Storage', lastCall'.sender, i).error = NoError)

C4_BadIndexRejected == [][C4_BadIndexStep]_vars

\* vote(count()) by an address that has not voted
C4_Witness ==
    /\ IsCall(lastCall, "vote")
    /\ lastCall.index = count
    /\ lastCall.error \in InvalidIndex
    /\ ~hasVoted[lastCall.sender]

(***************************************************************************)
(* C5: addProposal by a caller other than the owner fails with             *)
(* Unauthorized and changes nothing; count grows only in a step that is an *)
(* addProposal call by the owner.                                          *)
(***************************************************************************)
C5_OwnerGateStep ==
    /\ (IsCall(lastCall', "addProposal") /\ lastCall'.sender # owner)
       => (lastCall'.error \in Unauthorized /\ LedgerUnchanged)
    /\ (Len(proposals') > Len(proposals))
       => (IsCall(lastCall', "addProposal") /\ lastCall'.sender = owner)

C5_OnlyOwnerAdds == [][C5_OwnerGateStep]_vars

\* a non-owner offered a name the owner could have added (Scenario C)
C5_Witness ==
    /\ IsCall(lastCall, "addProposal")
    /\ lastCall.sender # owner
    /\ lastCall.error \in Unauthorized
    /\ bytesLength(lastCall.name) = 1

(***************************************************************************)
(* C6: addProposal by the owner is accepted exactly when the byte length   *)
(* of the name is in 1..99; with length 0 or length >= 100 it fails with   *)
(* InvalidProposal and changes nothing; and every stored proposal name,    *)
(* the constructor's included, has byte length in 1..99 in every state.    *)
(***************************************************************************)
NameLengthOk(name) == bytesLength(name) \in 1..99

C6_StoredNamesInRange ==
    \A i \in ValidIndices : NameLengthOk(getProposal(Storage, i).retStr)

C6_OwnerAddStep ==
    (/\ IsCall(lastCall', "addProposal")
     /\ lastCall'.sender = owner)
    => (/\ (lastCall'.error = NoError) <=> NameLengthOk(lastCall'.name)
        /\ ~NameLengthOk(lastCall'.name) =>
              (lastCall'.error \in InvalidProposal /\ LedgerUnchanged))

C6_NameLengthBounds == []C6_StoredNamesInRange /\ [][C6_OwnerAddStep]_vars

\* a 99-byte name was accepted and is stored
C6_Witness ==
    /\ AcceptedCall(lastCall, "addProposal")
    /\ bytesLength(lastCall.name) = 99
    /\ getProposal(Storage, count - 1).retStr = lastCall.name

(***************************************************************************)
(* C7: an accepted addProposal(name) appends exactly one proposal          *)
(* (name, 0) at the index equal to the count before the call, raises count *)
(* by exactly 1, and leaves every earlier proposal and the voted set as    *)
(* they were.                                                              *)
(***************************************************************************)
C7_AppendStep ==
    AcceptedCall(lastCall', "addProposal")
    => (/\ Len(proposals') = Len(proposals) + 1
        /\ proposals'[Len(proposals) + 1] = Proposal(lastCall'.name, 0)
        /\ \A k \in DOMAIN proposals : proposals'[k] = proposals[k]
        /\ hasVoted' = hasVoted)

C7_AddProposalFrame == [][C7_AppendStep]_vars

\* a proposal was appended to a ledger that already holds votes
C7_Witness ==
    /\ AcceptedCall(lastCall, "addProposal")
    /\ \E a \in Addresses : hasVoted[a]
    /\ \E i \in ValidIndices : getProposal(Storage, i).retInt > 0

(***************************************************************************)
(* C8 as stated: a successful addProposal call returns the newly assigned  *)
(* index (the count before the append) to its caller.                      *)
(***************************************************************************)
C8_Original_ReturnsIndex ==
    AcceptedCall(lastCall, "addProposal")
    => (lastCall.nret = 1 /\ lastCall.retInt = count - 1)

(***************************************************************************)
(* C8 amended: a successful addProposal call returns no value; the newly   *)
(* assigned index (the count before the append) reaches the caller only as *)
(* the proposalIndex of the ProposalAdded event the call emits, together   *)
(* with the name.                                                          *)
(***************************************************************************)
C8_IndexOnlyInEvent ==
    AcceptedCall(lastCall, "addProposal")
    => (/\ lastCall.nret = 0
        /\ lastCall.logs = <<ProposalAdded(count - 1, lastCall.name)>>)

\* the owner's addProposal went through and assigned an index past the seeds
C8_Witness ==
    /\ AcceptedCall(lastCall, "addProposal")
    /\ count - 1 = NumSeeds
    /\ Len(lastCall.logs) = 1
    /\ lastCall.logs[1].proposalIndex = NumSeeds

(***************************************************************************)
(* C9 as stated: after each addProposal call, count() equals the number of *)
(* addProposal calls accepted so far.                                      *)
(***************************************************************************)
C9_Original_CountIsAcceptedAdds ==
    IsCall(lastCall, "addProposal")
    => count = NumAccepted("addProposal")

(***************************************************************************)
(* C9 amended: count() equals the three proposals the constructor seeds    *)
(* plus the number of addProposal calls accepted so far; the valid         *)
(* proposal indices are exactly 0 .. count-1 with no gaps; and after a     *)
(* successful addProposal, getProposal(count()-1) returns the just-added   *)
(* proposal.                                                               *)
(***************************************************************************)
C9_IndexContiguity ==
    /\ count = NumSeeds + NumAccepted("addProposal")
    /\ \A i \in IndexInputs :
          (getProposal(Storage, i).error = NoError) <=> (i \in 0..(count - 1))
    /\ AcceptedCall(lastCall, "addProposal") =>
          LET r == getProposal(Storage, count - 1)
          IN  /\ r.error = NoError
              /\ r.retStr = lastCall.name
              /\ r.retInt = 0

\* the first addProposal after deployment was accepted: indices 0..3 are
\* valid and index 4 is not
C9_Witness ==
    /\ AcceptedCall(lastCall, "addProposal")
    /\ NumAccepted("addProposal") = 1
    /\ count = NumSeeds + 1
    /\ getProposal(Storage, count).error \in InvalidIndex

(***************************************************************************)
(* C10: when count > 0 and some proposal has at least one vote,            *)
(* getWinner() returns the name of the lowest-indexed proposal among those *)
(* whose voteCount is the maximum; a later proposal that ties the leader   *)
(* does not replace it.                                                    *)
(***************************************************************************)
VoteCountAt(i) == getProposal(Storage, i).retInt

Leaders == {i \in ValidIndices : \A j \in ValidIndices : VoteCountAt(j) <= VoteCountAt(i)}

LowestLeader == CHOOSE i \in Leaders : \A j \in Leaders : i <= j

C10_LowestIndexedLeaderWins ==
    (count > 0 /\ \E i \in ValidIndices : VoteCountAt(i) > 0)
    => (/\ getWinner(Storage).error = NoError
        /\ getWinner(Storage).retStr = getProposal(Storage, LowestLeader).retStr)

\* getWinner was called while two proposals tie for the lead with one vote
\* each, the lower-indexed one not being proposal 0
C10_Witness ==
    /\ IsCall(lastCall, "getWinner")
    /\ Cardinality(Leaders) = 2
    /\ LowestLeader > 0
    /\ VoteCountAt(LowestLeader) > 0
    /\ lastCall.retStr = getProposal(Storage, LowestLeader).retStr

(***************************************************************************)
(* C11: getWinner() on a ledger with zero proposals does not fail and      *)
(* returns the "No proposals available" sentinel.                          *)
(***************************************************************************)
C11_EmptyLedgerSentinel ==
    (count = 0)
    => (/\ getWinner(Storage).error = NoError
        /\ getWinner(Storage).nret = 1
        /\ getWinner(Storage).retStr = NoProposalsSentinel
        /\ IsCall(lastCall, "getWinner") =>
              (lastCall.error = NoError /\ lastCall.retStr = NoProposalsSentinel))

\* getWinner was called on the empty array and answered with the sentinel
C11_Witness ==
    /\ count = 0
    /\ IsCall(lastCall, "getWinner")
    /\ lastCall.error = NoError
    /\ lastCall.retStr = NoProposalsSentinel

(***************************************************************************)
(* C12: when count > 0 and no vote has ever been accepted, getWinner()     *)
(* returns the name of the proposal at index 0, however many proposals     *)
(* exist.                                                                  *)
(***************************************************************************)
C12_NoVotesFirstProposalWins ==
    (count > 0 /\ NumAccepted("vote") = 0)
    => (/\ getWinner(Storage).error = NoError
        /\ getWinner(Storage).retStr = getProposal(Storage, 0).retStr
        /\ IsCall(lastCall, "getWinner") =>
              lastCall.retStr = getProposal(Storage, 0).retStr)

\* getWinner was called with four proposals and no vote cast
C12_Witness ==
    /\ IsCall(lastCall, "getWinner")
    /\ NumAccepted("vote") = 0
    /\ count = NumSeeds + 1
    /\ lastCall.retStr = SeedA

(***************************************************************************)
(* C13: getProposal(index) returns the name and the voteCount stored at    *)
(* that index when index < count, and fails with InvalidIndex for every    *)
(* index >= count, index = count and the wrapped -1 included.              *)
(***************************************************************************)
GetProposalAsSpecified(r, index) ==
    IF index < Len(proposals)
    THEN /\ r.error = NoError
         /\ r.nret = 2
         /\ r.retStr = proposals[index + 1].name
         /\ r.retInt = proposals[index + 1].voteCount
    ELSE r.error \in InvalidIndex

C13_GetProposalBounds ==
    /\ \A index \in IndexInputs :
          GetProposalAsSpecified(getProposal(Storage, index), index)
    /\ IsCall(lastCall, "getProposal") =>
          GetProposalAsSpecified(lastCall, lastCall.index)

\* getProposal of the wrapped -1 was refused while a proposal holds a vote
C13_Witness ==
    /\ IsCall(lastCall, "getProposal")
    /\ lastCall.index = HugeIndex
    /\ lastCall.error \in InvalidIndex
    /\ getProposal(Storage, count).error \in InvalidIndex
    /\ \E i \in ValidIndices : getProposal(Storage, i).retInt = 1

(***************************************************************************)
(* C14: the proposal sequence is append-only: in every step count does not *)
(* decrease and the name at every index valid before the step is the same  *)
(* after it (no deletion, reordering or renaming).                         *)
(***************************************************************************)
C14_AppendOnlyStep ==
    /\ Len(proposals') >= Len(proposals)
    /\ \A i \in ValidIndices : proposals'[i + 1].name = proposals[i + 1].name

C14_AppendOnly == [][C14_AppendOnlyStep]_vars

\* after appends and accepted votes the first proposal still has its name
C14_Witness ==
    /\ count = MaxProposals
    /\ NumAccepted("addProposal") > 0
    /\ NumAccepted("vote") > 0
    /\ IsCall(lastCall, "getProposal")
    /\ lastCall.index = 0
    /\ lastCall.retStr = SeedA

(***************************************************************************)
(* C15: voter membership is write-once: an address for which hasVoted is   *)
(* true stays so after every step, and hasVoted returns false for an       *)
(* address that never had a vote accepted.                                 *)
(***************************************************************************)
HasVotedOf(a) == hasVotedGetter(Storage, a).retInt = BoolAsUint(TRUE)

C15_DefaultFalse ==
    /\ \A a \in Addresses :
          BagCardinality(AcceptedVotesBy(a)) = 0 => ~HasVotedOf(a)
    /\ IsCall(lastCall, "hasVoted") =>
          /\ lastCall.error = NoError
          /\ lastCall.retInt = hasVotedGetter(Storage, lastCall.sender).retInt

C15_WriteOnceStep == \A a \in Addresses : hasVoted[a] => hasVoted'[a]

C15_VotedSetWriteOnce == []C15_DefaultFalse /\ [][C15_WriteOnceStep]_vars

\* hasVoted answered true for one address and is false for another, after
\* a proposal was added
C15_Witness ==
    /\ IsCall(lastCall, "hasVoted")
    /\ lastCall.retInt = BoolAsUint(TRUE)
    /\ NumAccepted("vote") > 0
    /\ NumAccepted("addProposal") > 0
    /\ \E a \in Addresses : ~HasVotedOf(a)

(***************************************************************************)
(* C16: in every reachable state owner is the identity that created the    *)
(* ledger, and no step, whatever the operation, its caller or its outcome, *)
(* changes owner.                                                          *)
(***************************************************************************)
Creators == {t.sender : t \in BagToSet(Accepted("constructor"))}

C16_OwnerIsCreator ==
    /\ Creators = {ownerGetter(Storage).retInt}
    /\ owner \in Addresses
    /\ IsCall(lastCall, "owner") =>
          (lastCall.error = NoError /\ {lastCall.retInt} = Creators)

C16_OwnerStep == ownerGetter(Storage).retInt' = ownerGetter(Storage).retInt

C16_OwnerFixed == []C16_OwnerIsCreator /\ [][C16_OwnerStep]_vars

\* owner() answered the creator after accepted votes and an accepted append
C16_Witness ==
    /\ IsCall(lastCall, "owner")
    /\ lastCall.retInt = Deployer
    /\ NumAccepted("vote") = NumAddresses
    /\ NumAccepted("addProposal") > 0

(***************************************************************************)
(* C17: an accepted vote(i) by caller c sets hasVoted(c) and raises the    *)
(* voteCount of proposal i by exactly 1, and changes nothing else: the     *)
(* other voteCounts, every name, count, owner and hasVoted of every other  *)
(* address are as before.                                                  *)
(***************************************************************************)
C17_VoteEffect(c, i) ==
    /\ hasVoted'[c]
    /\ proposals'[i + 1].voteCount = proposals[i + 1].voteCount + 1
    /\ \A j \in ValidIndices \ {i} :
          proposals'[j + 1].voteCount = proposals[j + 1].voteCount
    /\ \A j \in ValidIndices : proposals'[j + 1].name = proposals[j + 1].name
    /\ Len(proposals') = Len(proposals)
    /\ owner' = owner
    /\ \A a \in Addresses \ {c} : hasVoted'[a] = hasVoted[a]

C17_VoteStep ==
    AcceptedCall(lastCall', "vote") =>
        C17_VoteEffect(lastCall'.sender, lastCall'.index)

C17_VoteFrame == [][C17_VoteStep]_vars

\* a vote was accepted for the last of four proposals after another address
\* had voted
C17_Witness ==
    /\ AcceptedCall(lastCall, "vote")
    /\ count = MaxProposals
    /\ lastCall.index = count - 1
    /\ VoteCountAt(lastCall.index) = 1
    /\ \E a \in Addresses \ {lastCall.sender} : hasVoted[a]

(***************************************************************************)
(* C18: notifications match accepted mutations one to one: an accepted     *)
(* addProposal emits exactly one ProposalAdded with the index the proposal *)
(* took (count before the append) and its name, an accepted vote emits     *)
(* exactly one Voted with the caller and the index, each is emitted when   *)
(* the state change of its call has been made, and a rejected call (and a  *)
(* read) emits nothing.                                                    *)
(***************************************************************************)
\* the emitted log holds one ProposalAdded per stored proposal, one Voted
\* per accepted vote, and nothing more
C18_LogMatchesLedger ==
    /\ \A i \in ValidIndices :
          CopiesIn(ProposalAdded(i, getProposal(Storage, i).retStr), events) = 1
    /\ \A t \in BagToSet(Accepted("vote")) :
          CopiesIn(Voted(t.sender, t.index), events) = 1
    /\ BagCardinality(events) = count + NumAccepted("vote")

C18_Expected(c) ==
    IF AcceptedCall(c, "addProposal")
    THEN <<ProposalAdded(Len(proposals), c.name)>>
    ELSE IF AcceptedCall(c, "vote")
         THEN <<Voted(c.sender, c.index)>>
         ELSE <<>>

C18_NotifyStep ==
    /\ lastCall'.logs = C18_Expected(lastCall')
    /\ events' = IF lastCall'.logs = <<>> THEN events
                 ELSE events (+) SetToBag({lastCall'.logs[1]})
    /\ Len(lastCall'.atEmit) = Len(lastCall'.logs)
    /\ \A k \in DOMAIN lastCall'.atEmit :
          lastCall'.atEmit[k] = [proposals |-> proposals', hasVoted |-> hasVoted']

C18_Notifications == []C18_LogMatchesLedger /\ [][C18_NotifyStep]_vars

\* a vote was accepted and emitted its Voted, after an accepted append and
\* an earlier accepted vote
C18_Witness ==
    /\ AcceptedCall(lastCall, "vote")
    /\ lastCall.logs = <<Voted(lastCall.sender, lastCall.index)>>
    /\ count = NumSeeds + 1
    /\ CopiesIn(ProposalAdded(NumSeeds, "G"), events) = 1
    /\ BagCardinality(events) = count + 2

(***************************************************************************)
(* C19: the read operations getProposalsCount, getProposal, hasVoted and   *)
(* getWinner never change ledger state: after any of them, accepted or     *)
(* (getProposal) refused with InvalidIndex, the proposals with their       *)
(* voteCounts, the voted set, count and owner are what they were before.   *)
(***************************************************************************)
ReadOps == {"getProposalsCount", "getProposal", "hasVoted", "getWinner"}

C19_ReadStep ==
    (lastCall'.op \in ReadOps) =>
        /\ proposals' = proposals
        /\ hasVoted' = hasVoted
        /\ owner' = owner
        /\ events' = events
        /\ getProposalsCount(Storage).retInt' = count

C19_ReadsChangeNothing == [][C19_ReadStep]_vars

\* a getProposal was refused on a ledger holding an added proposal and votes
C19_Witness ==
    /\ IsCall(lastCall, "getProposal")
    /\ lastCall.error \in InvalidIndex
    /\ lastCall.index = count
    /\ NumAccepted("addProposal") > 0
    /\ NumAccepted("vote") > 0

(***************************************************************************)
(* C20 as stated: concurrent mutating calls take effect one whole call at  *)
(* a time, so the outcome is that of some total order of the calls; two    *)
(* simultaneous votes by one identity give exactly one acceptance and one  *)
(* AlreadyVoted; and I1-I4 hold in every state, I1 as written: the         *)
(* proposal indices are exactly 0 .. count-1 where count is the number of  *)
(* addProposal calls accepted.                                             *)
(***************************************************************************)
\* the orders in which the calls of S can be executed
Orders(S) ==
    {o \in [1..Cardinality(S) -> S] :
        \A i, j \in 1..Cardinality(S) : o[i] = o[j] => i = j}

Fresh(s) == [s EXCEPT !.logs = <<>>, !.atEmit = <<>>]

\* the calls o[i], o[i+1], .. o[n] run one after the other from storage s;
\* same is whether each gave its caller the outcome the caller got
RECURSIVE Replay(_, _, _, _)
Replay(s, o, i, n) ==
    IF i > n THEN [storage |-> s, same |-> TRUE]
    ELSE LET r == Apply(Fresh(s), calls[o[i]])
             rest == Replay(r.storage, o, i + 1, n)
         IN  [storage |-> rest.storage,
              same |-> (r.error = calls[o[i]].error) /\ rest.same]

C20_SomeTotalOrder ==
    \E o \in Orders(DoneIds) :
        LET r == Replay(constructor(Deployer), o, 1, Cardinality(DoneIds))
        IN  /\ r.same
            /\ r.storage.owner = owner
            /\ r.storage.proposals = proposals
            /\ r.storage.hasVoted = hasVoted
            /\ r.storage.events = events

\* the executed votes of address a whose index was valid
ValidVotesOf(a) ==
    {k \in DoneIds : /\ calls[k].op = "vote"
                     /\ calls[k].sender = a
                     /\ calls[k].error \notin InvalidIndex}

C20_OneOfTwoVotes ==
    \A a \in Addresses :
        Cardinality(ValidVotesOf(a)) >= 2 =>
            /\ Cardinality({k \in ValidVotesOf(a) : calls[k].error = NoError}) = 1
            /\ \A k \in ValidVotesOf(a) :
                  calls[k].error \in {NoError} \cup AlreadyVoted

StoredIndices ==
    {i \in (0..(NumSeeds + MaxCalls)) \cup {HugeIndex} :
        getProposal(Storage, i).error = NoError}

I1_AsWritten ==
    /\ count = NumAccepted("addProposal")
    /\ StoredIndices = 0..(count - 1)

I1_WithSeeds ==
    /\ count = NumSeeds + NumAccepted("addProposal")
    /\ StoredIndices = 0..(count - 1)

I2 == \A a \in Addresses :
          HasVotedOf(a) <=> BagCardinality(AcceptedVotesBy(a)) = 1

I3 == \A i \in ValidIndices :
          VoteCountAt(i) = BagCardinality(AcceptedVotesFor(i))

I4 == \A i \in ValidIndices : NameLengthOk(getProposal(Storage, i).retStr)

SeedLists == {<<>>, <<"Alpha", "Beta">>, <<SeedA, SeedB, SeedC>>}

\* storage s is a ledger just created by creator with the seed list S
CreatedWith(s, S, creator) ==
    /\ getProposalsCount(s).retInt = Len(S)
    /\ \A i \in 0..(Len(S) - 1) :
          /\ getProposal(s, i).error = NoError
          /\ getProposal(s, i).retStr = S[i + 1]
          /\ getProposal(s, i).retInt = 0
    /\ \A a \in Addresses : hasVotedGetter(s, a).retInt = BoolAsUint(FALSE)
    /\ ownerGetter(s).retInt = creator

C21_Original_AnySeedList ==
    IsCall(lastCall, "constructor") =>
        \A S \in SeedLists :
            \E creator \in Addresses : CreatedWith(constructor(creator), S, creator)

(***************************************************************************)
(* C21, amended: the ledger is created with the three proposals its        *)
(* constructor names and no others; right after creation count() is 3,     *)
(* getProposal(i) is (that name, 0), no address has voted and owner is the *)
(* creator.                                                                *)
(***************************************************************************)
ConstructorSeeds == <<SeedA, SeedB, SeedC>>

C21_CreatedWithThreeSeeds ==
    /\ \A creator \in Addresses :
          CreatedWith(constructor(creator), ConstructorSeeds, creator)
    /\ IsCall(lastCall, "constructor") =>
          CreatedWith(Storage, ConstructorSeeds, lastCall.sender)

\* the ledger has just been created
C21_Witness ==
    /\ IsCall(lastCall, "constructor")
    /\ count = NumSeeds
    /\ getProposal(Storage, 0).retStr = SeedA
    /\ ownerGetter(Storage).retInt = lastCall.sender

(***************************************************************************)
(* C22 as stated: when the ledger rejects a vote the client submitted,     *)
(* the client surfaces the error: once handleVote has completed, the error *)
(* state holds the voting error; the refresh handleVote makes on failure   *)
(* does not clear it.                                                      *)
(***************************************************************************)
\* handleVote has run to its end and the ledger had rejected its vote
HandleVoteCompletedRejected ==
    /\ client.pc = "idle"
    /\ ~client.inVote
    /\ client.voteOutcome = "rejected"

C22_Original_VoteErrorSurfaced ==
    HandleVoteCompletedRejected =>
        client.error = VotingError(client.voteReason)

(***************************************************************************)
(* C23: the client offers and submits a vote only when its hasVoted flag   *)
(* is false: when the flag is true no Vote button is rendered for any      *)
(* entry and handleVote returns without sending a vote (it only sets the   *)
(* error "You have already voted."); a vote that has been sent was sent    *)
(* with the flag false.                                                    *)
(***************************************************************************)
\* handleVote(proposalIndex) returns at its guard: nothing is sent
ReturnsWithoutSending(c, proposalIndex) ==
    LET c1 == handleVote(c, proposalIndex) IN
    /\ c1.pc = c.pc
    /\ c1.pc # "voteSent"
    /\ c1.voteOutcome = c.voteOutcome
    /\ c1.error = ErrAlreadyVotedUi

C23_VoteOnlyWhenNotVoted ==
    /\ client.hasVoted =>
          \A index \in VoteIndexInputs :
              /\ ~VoteRendered(client, index)
              /\ ReturnsWithoutSending(client, index)
    /\ client.pc = "voteSent" => ~client.hasVoted

\* the list is on screen for an identity that has voted
C23_Witness ==
    /\ client.hasVoted
    /\ client.pc = "idle"
    /\ \E index \in VoteIndexInputs : ListShows(client, index)

(***************************************************************************)
(* C24: a vote the client submitted is pending from its submission until   *)
(* the ledger confirms or rejects it: in that interval the in-progress     *)
(* flag is set and no Vote button can be clicked; once the ledger has      *)
(* confirmed it, hasVoted is set before the first read of the refresh, and *)
(* the in-progress flag is cleared only after the full read sequence       *)
(* (count, every getProposal, hasVoted) has been made again.               *)
(***************************************************************************)
\* the reads of one complete loadContractData that obtained count n
FullReadSequence(n) ==
    [k \in 1..(n + 2) |->
        IF k = 1 THEN Read("getProposalsCount", NoIndex, NoError)
        ELSE IF k = n + 2 THEN Read("hasVoted", NoIndex, NoError)
        ELSE Read("getProposal", k - 2, NoError)]

LoadCompletedUnmutated ==
    /\ client.pc = "idle"
    /\ client.reads # <<>>
    /\ ~client.mutated

C25_PollingYieldsLedgerList ==
    LoadCompletedUnmutated =>
        /\ Len(client.proposals) = getProposalsCount(Storage).retInt
        /\ \A i \in 0..(Len(client.proposals) - 1) :
              LET r == getProposal(Storage, i) IN
              client.proposals[i + 1] = [index |-> i, name |-> r.retStr,
                                         voteCount |-> r.retInt]
        /\ client.reads = FullReadSequence(Len(client.proposals))
        /\ client.error = ""

\* a completed load of a ledger with an added proposal and a vote cast
C25_Witness ==
    /\ LoadCompletedUnmutated
    /\ Len(client.proposals) > NumSeeds
    /\ \E k \in DOMAIN client.proposals : client.proposals[k].voteCount > 0

(***************************************************************************)
(* C26: in every reachable state the sum of voteCount over all proposals   *)
(* equals the number of addresses for which hasVoted is true.              *)
(***************************************************************************)
RECURSIVE SumVoteCounts(_)
SumVoteCounts(props) ==
    IF props = <<>> THEN 0
    ELSE Head(props).voteCount + SumVoteCounts(Tail(props))

VotedAddresses == {a \in Addresses : hasVotedGetter(Storage, a).retInt = BoolAsUint(TRUE)}

C26_VotesEqualVoters == SumVoteCounts(proposals) = Cardinality(VotedAddresses)

\* every address has voted, two of them for the same proposal
C26_Witness ==
    /\ Cardinality(VotedAddresses) = NumAddresses
    /\ \E i \in ValidIndices : VoteCountAt(i) = 2
    /\ SumVoteCounts(proposals) = NumAddresses

(***************************************************************************)
(* C27: the deployed ledger is never empty: the constructor seeds exactly  *)
(* three proposals with voteCount 0, so count >= 3 in every reachable      *)
(* state, the branch of getWinner for an empty array is never taken, and   *)
(* getWinner returns the name of a proposal stored at some index < count.  *)
(***************************************************************************)
\* the test of getWinner's first statement: if (proposals.length == 0)
EmptyBranchTaken(s) == Len(s.proposals) = 0

StoredNames == {getProposal(Storage, i).retStr : i \in ValidIndices}

SeededWithThree(s) ==
    /\ Len(s.proposals) = NumSeeds
    /\ \A k \in DOMAIN s.proposals : s.proposals[k].voteCount = 0

C27_NeverEmpty ==
    /\ \A creator \in Addresses : SeededWithThree(constructor(creator))
    /\ count >= NumSeeds
    /\ ~EmptyBranchTaken(Storage)
    /\ getWinner(Storage).error = NoError
    /\ getWinner(Storage).retStr \in StoredNames
    /\ IsCall(lastCall, "getWinner") =>
          (lastCall.error = NoError /\ lastCall.retStr \in StoredNames)

\* getWinner was called on a ledger grown beyond its seeds and answered
\* with the name of an added proposal
C27_Witness ==
    /\ IsCall(lastCall, "getWinner")
    /\ count > NumSeeds
    /\ \E i \in ValidIndices :
          /\ i >= NumSeeds
          /\ VoteCountAt(i) > 0
          /\ lastCall.retStr = getProposal(Storage, i).retStr
          /\ \A j \in ValidIndices : j # i => VoteCountAt(j) = 0

(***************************************************************************)
(* C28: an accepted addProposal never changes the result of getWinner when *)
(* count > 0 before the call: whatever votes were cast earlier, getWinner  *)
(* returns the same name immediately before and immediately after it.      *)
(***************************************************************************)
SameWinnerAfter(r) ==
    /\ getWinner(r.storage).error = getWinner(Storage).error
    /\ getWinner(r.storage).retStr = getWinner(Storage).retStr

C28_AddKeepsWinner ==
    count > 0 =>
        \A sender \in Addresses, name \in NameInputs :
            LET r == addProposal(Storage, sender, name)
            IN  r.error = NoError =>
                    /\ Len(r.storage.proposals) = count + 1
                    /\ SameWinnerAfter(r)

\* addProposal was accepted after votes had made a proposal other than the
\* first one the winner, and that proposal is still the winner
C28_Witness ==
    /\ AcceptedCall(lastCall, "addProposal")
    /\ LowestLeader > 0
    /\ LowestLeader < count - 1
    /\ VoteCountAt(LowestLeader) > 0
    /\ getWinner(Storage).retStr = getProposal(Storage, LowestLeader).retStr

(***************************************************************************)
(* C29: when a call violates two constraints at once the reported error is *)
(* fixed by the order of the checks: vote with an out-of-range index by a  *)
(* caller who has already voted fails with InvalidIndex, not AlreadyVoted, *)
(* and addProposal with an empty or over-long name by a non-owner fails    *)
(* with Unauthorized, not InvalidProposal; in both cases nothing changes.  *)
(***************************************************************************)
OutOfRangeInputs == {i \in IndexInputs : ~(i < count)}

BadNameInputs == {n \in NameInputs : ~NameNotEmpty(n) \/ ~NameNotTooLong(n)}

\* the call was refused with an error of the category and left storage as
\* it was
RefusedWith(r, category) ==
    /\ r.error \in category
    /\ Snapshot(r.storage) = Snapshot(Storage)
    /\ r.storage.owner = owner
    /\ r.storage.events = events

C29_CheckOrder ==
    /\ \A sender \in Addresses, index \in OutOfRangeInputs :
          hasVoted[sender] =>
              RefusedWith(vote(Storage, sender, index), InvalidIndex)
    /\ \A sender \in Addresses \ {owner}, name \in BadNameInputs :
          RefusedWith(addProposal(Storage, sender, name), Unauthorized)
    /\ (/\ IsCall(lastCall, "vote")
        /\ ~(lastCall.index < count)
        /\ hasVoted[lastCall.sender])
       => lastCall.error \in InvalidIndex
    /\ (/\ IsCall(lastCall, "addProposal")
        /\ lastCall.sender # owner
        /\ lastCall.name \in BadNameInputs)
       => lastCall.error \in Unauthorized

\* an address that has voted called vote with an index out of range and
\* was told the index is invalid
C29_Witness ==
    /\ IsCall(lastCall, "vote")
    /\ ~(lastCall.index < count)
    /\ hasVoted[lastCall.sender]
    /\ lastCall.error \in InvalidIndex
    /\ BadNameInputs # {}

(***************************************************************************)
(* C30: a client read sequence that obtains the count and then calls       *)
(* getProposal(i) for each i below it never receives InvalidIndex,         *)
(* whatever accepted or rejected addProposal and vote calls of other       *)
(* callers are interleaved between its reads: the array only grows.        *)
(***************************************************************************)
C30_ReadsNeverInvalidIndex ==
    /\ \A k \in DOMAIN client.reads : client.reads[k].error \notin InvalidIndex
    /\ client.pc = "getProposal" =>
          /\ client.i < client.count
          /\ client.count <= count
          /\ getProposal(Storage, client.i).error = NoError
    /\ \A reason \in InvalidIndex : client.error # LoadError(reason)

\* a proposal was added after the client read the count and before it has
\* read the last getProposal of its sequence
C30_Witness ==
    /\ client.pc = "getProposal"
    /\ Len(client.reads) > 1
    /\ client.mutated
    /\ client.count < count
    /\ \A k \in DOMAIN client.reads : client.reads[k].error = NoError

(***************************************************************************)
(* The front end with a change of the active account (App.jsx, both        *)
(* versions).  The wallet's accountsChanged event runs                     *)
(* handleAccountsChanged, which sets the account and a new provider; the   *)
(* effect that builds the contract instance then runs, and the effect that *)
(* loads the data runs twice: once for the new account (with the contract  *)
(* instance still in place) and once more for the new contract instance.   *)
(* Nothing cancels an operation that is already awaiting: a                *)
(* loadContractData or a handleVote started before the change goes on with *)
(* the account of the render that started it (the closure of useCallback), *)
(* and writes the same state hooks.  So several operations are in flight   *)
(* at once; each is a thread holding the locals of its function, and the   *)
(* state hooks are shared.                                                 *)
(*                                                                         *)
(* In this specification client is a record of the hooks (account,         *)
(* proposals, hasVoted, loading, actionLoading, error), the threads, the   *)
(* number of account changes so far and failed, which records that some    *)
(* operation ended in its catch block.  A step of a thread is the step of  *)
(* the one-operation client above, applied to the thread's locals and the  *)
(* shared hooks.  The signer is taken to follow the account at once (the   *)
(* await of getSigner in the handler is not a step of its own), and the    *)
(* ledger is changed by the votes of this front end only.                  *)
(***************************************************************************)
\* how many operations can be awaiting at once, and how many times the
\* active account changes
MaxThreads == 3
MaxAccountChanges == 1

\* loadContractData calls started by one accountsChanged event
LoadsPerChange == 2

ThreadIds == 1..MaxThreads

IdleThread ==
    [pc |-> "idle", account |-> NoAddress, count |-> 0, i |-> 0,
     proposalsArray |-> <<>>, inVote |-> FALSE, voteIndex |-> NoIndex]

InitialAccountsClient(version, account) ==
    [version |-> version, account |-> account,
     proposals |-> <<>>, hasVoted |-> FALSE, loading |-> FALSE,
     actionLoading |-> FALSE, error |-> "",
     threads |-> [k \in ThreadIds |-> IdleThread],
     changes |-> 0, failed |-> FALSE]

\* thread k as a one-operation client: its locals and the shared hooks
ThreadView(cl, k) ==
    LET t == cl.threads[k]
    IN  [version |-> cl.version, pc |-> t.pc, account |-> t.account,
         proposals |-> cl.proposals, hasVoted |-> cl.hasVoted,
         loading |-> cl.loading, actionLoading |-> cl.actionLoading,
         error |-> cl.error,
         count |-> t.count, i |-> t.i, proposalsArray |-> t.proposalsArray,
         inVote |-> t.inVote, voteIndex |-> t.voteIndex,
         reads |-> <<>>, mutated |-> FALSE,
         voteOutcome |-> "none", voteReason |-> ""]

\* the hooks and the locals of thread k after its step left c; a function
\* that has returned leaves no locals
ThreadMerge(cl, k, c) ==
    [cl EXCEPT !.proposals = c.proposals, !.hasVoted = c.hasVoted,
               !.loading = c.loading, !.actionLoading = c.actionLoading,
               !.error = c.error,
               !.threads[k] =
                   IF c.pc = "idle" THEN IdleThread
                   ELSE [pc |-> c.pc, account |-> c.account,
                         count |-> c.count, i |-> c.i,
                         proposalsArray |-> c.proposalsArray,
                         inVote |-> c.inVote, voteIndex |-> c.voteIndex]]

FreeThreads(cl) == {k \in ThreadIds : cl.threads[k].pc = "idle"}

FirstFree(cl) == CHOOSE k \in FreeThreads(cl) : \A j \in FreeThreads(cl) : k <= j

\* a function of the current render is called: its closure holds the
\* active account
NewThread(cl, k) == [ThreadView(cl, k) EXCEPT !.account = cl.account]

\* loadContractData() of the current render is started on a free thread
StartLoad(cl) ==
    LET k == FirstFree(cl)
    IN  ThreadMerge(cl, k, loadContractData(NewThread(cl, k)))

\* handleAccountsChanged(accounts) with accounts[0] = newAccount, and the
\* two runs of the effect that loads the data
handleAccountsChanged(cl, newAccount) ==
    StartLoad(StartLoad([cl EXCEPT !.account = newAccount,
                                   !.changes = @ + 1]))

InitAccounts ==
    LET s == constructor(Deployer)
    IN  /\ owner = s.owner
        /\ proposals = s.proposals
        /\ hasVoted = s.hasVoted
        /\ events = s.events
        /\ lastCall = Call("constructor", Deployer, NoIndex, "",
                           Completed(s, 0, "", 0))
        /\ txs = SetToBag({Tx("constructor", Deployer, NoIndex, "")})
        /\ calls = [k \in CallIds |-> IdleCall]
        /\ \E version \in Versions :
              client = InitialAccountsClient(version, Deployer)

AccountsChanged ==
    /\ client.changes < MaxAccountChanges
    /\ Cardinality(FreeThreads(client)) >= LoadsPerChange
    /\ \E newAccount \in Addresses \ {client.account} :
          client' = handleAccountsChanged(client, newAccount)
    /\ UNCHANGED <<Ledger, lastCall, calls>>

AccountsRefreshClick ==
    /\ RefreshEnabled(client)
    /\ FreeThreads(client) # {}
    /\ client' = StartLoad(client)
    /\ UNCHANGED <<Ledger, lastCall, calls>>

\* the entries whose Vote button the user clicks
AccountsVoteInputs == {0}

AccountsVoteClick ==
    /\ FreeThreads(client) # {}
    /\ \E index \in Displayed(client) \cap AccountsVoteInputs :
          /\ VoteOffered(client, index)
          /\ LET k == FirstFree(client)
             IN  client' = ThreadMerge(client, k,
                                       handleVote(NewThread(client, k), index))
    /\ UNCHANGED <<Ledger, lastCall, calls>>

ThreadReadCount ==
    \E k \in ThreadIds :
        /\ client.threads[k].pc = "count"
        /\ client' = ThreadMerge(client, k,
               AfterCount(ThreadView(client, k), getProposalsCount(Storage)))
        /\ UNCHANGED <<Ledger, lastCall, calls>>

ThreadReadProposal ==
    \E k \in ThreadIds :
        /\ client.threads[k].pc = "getProposal"
        /\ client' = ThreadMerge(client, k,
               AfterProposal(ThreadView(client, k),
                             getProposal(Storage, client.threads[k].i)))
        /\ UNCHANGED <<Ledger, lastCall, calls>>

ThreadReadHasVoted ==
    \E k \in ThreadIds :
        /\ client.threads[k].pc = "hasVoted"
        /\ client' = ThreadMerge(client, k,
               AfterHasVoted(ThreadView(client, k),
                             hasVotedGetter(Storage, client.threads[k].account)))
        /\ UNCHANGED <<Ledger, lastCall, calls>>

ThreadVoteMined ==
    \E k \in ThreadIds :
        /\ client.threads[k].pc = "voteSent"
        /\ LET t == client.threads[k]
               c == ThreadView(client, k)
               r == vote(Storage, t.account, t.voteIndex)
           IN  /\ Commit(r)
               /\ Record(r, Tx("vote", t.account, t.voteIndex, ""))
               /\ client' =
                    IF r.error = NoError
                    THEN ThreadMerge(client, k, AfterVoteConfirmed(c))
                    ELSE [ThreadMerge(client, k,
                              handleVoteCatch(c, "rejected", r.error,
                                              VotingError(r.error)))
                          EXCEPT !.failed = TRUE]
        /\ UNCHANGED <<lastCall, calls>>

ThreadVoteRefused ==
    \E k \in ThreadIds :
        /\ client.threads[k].pc = "voteSent"
        /\ client' = [ThreadMerge(client, k,
                          handleVoteCatch(ThreadView(client, k), "refused", "",
                                          ErrWalletRejected))
                      EXCEPT !.failed = TRUE]
        /\ UNCHANGED <<Ledger, lastCall, calls>>

NextAccounts ==
    \/ AccountsChanged
    \/ AccountsRefreshClick
    \/ AccountsVoteClick
    \/ ThreadReadCount
    \/ ThreadReadProposal
    \/ ThreadReadHasVoted
    \/ ThreadVoteMined
    \/ ThreadVoteRefused

SpecAccounts == InitAccounts /\ [][NextAccounts]_vars

(***************************************************************************)
(* C31 as stated: once every client operation in flight (loadContractData, *)
(* handleVote, the account-change handler) has completed without error,    *)
(* the client's hasVoted flag equals the ledger's hasVoted of the active   *)
(* account, even when the account changed while a load or a vote of the    *)
(* previous account was in flight.                                         *)
(***************************************************************************)
AllCompleted == FreeThreads(client) = ThreadIds

C31_Original_FlagFollowsAccount ==
    (AllCompleted /\ ~client.failed /\ client.changes > 0) =>
        client.hasVoted = HasVotedOf(client.account)

\* the flag the client is left with is the previous account's: account 1
\* sent a vote, the active account changed to account 2 while it was
\* pending, and when the vote was confirmed handleVote set hasVoted and
\* read hasVoted of account 1 again
C31_StaleFlagAfterVote ==
    /\ AllCompleted
    /\ ~client.failed
    /\ client.account # Deployer
    /\ HasVotedOf(Deployer)
    /\ ~HasVotedOf(client.account)
    /\ client.hasVoted

====
